---- MODULE Spec2Model ----
(***************************************************************************)
(* A model of drf-dynamic-read: the request's `fields` / `omit` query      *)
(* strings, the plan of select_related / prefetch_related paths computed   *)
(* from a serializer class, its narrowing for one request, and the         *)
(* per-serializer field filtering with its propagation to nested           *)
(* serializers.                                                            *)
(*                                                                         *)
(* Python strings are TLA+ strings (Len, SubSeq and \o act on them         *)
(* character by character); a Python list or tuple is a sequence; None is  *)
(* the empty option <<>> and a value v that may be None is <<v>>.          *)
(***************************************************************************)
EXTENDS Naturals, Sequences, FiniteSets, TLC

(***************************************************************************)
(* Bounds of the model.                                                    *)
(***************************************************************************)
\* the most tokens one request carries, `fields` and `omit` together
MaxTokens == 2
\* the most times one serializer is asked to_representation in a request
MaxPasses == 2
\* the most nested calls of get_final_fields before Python gives up
\* (RecursionError)
MaxDepth == 3

(***************************************************************************)
(* Python's str and list operations.                                       *)
(***************************************************************************)
\* s.startswith(p)
StartsWith(s, p) ==
    Len(p) <= Len(s) /\ SubSeq(s, 1, Len(p)) = p

\* the positions at which sep occurs in s
Occurrences(s, sep) ==
    { i \in 1..Len(s) : i + Len(sep) - 1 <= Len(s)
                        /\ SubSeq(s, i, i + Len(sep) - 1) = sep }

RECURSIVE Split(_, _)
\* s.split(sep): cut at the leftmost occurrence, then split the rest
Split(s, sep) ==
    IF Occurrences(s, sep) = {}
    THEN << s >>
    ELSE LET i == CHOOSE k \in Occurrences(s, sep) :
                      \A m \in Occurrences(s, sep) : k <= m
         IN  << SubSeq(s, 1, i - 1) >>
             \o Split(SubSeq(s, i + Len(sep), Len(s)), sep)

RECURSIVE Join(_, _)
\* sep.join(parts): how a client writes a list of tokens as one query string
Join(parts, sep) ==
    IF parts = << >> THEN ""
    ELSE IF Len(parts) = 1 THEN parts[1]
    ELSE parts[1] \o sep \o Join(Tail(parts), sep)

\* [each.split(sep) for each in tokens]
SplitEach(tokens, sep) == [ i \in 1..Len(tokens) |-> Split(tokens[i], sep) ]

\* [path[index] for path in paths], index counted from 0
SegmentAt(paths, index) == [ i \in 1..Len(paths) |-> paths[i][index + 1] ]

\* set(s)
SeqToSet(s) == { s[i] : i \in 1..Len(s) }

\* None, and a value that is not None
None == << >>
Some(v) == << v >>
IsNone(o) == o = << >>
\* `o or []` for an optional list
OrEmpty(o) == IF o = << >> THEN << >> ELSE o[1]
\* bool(o) for an optional list: neither None nor empty
Truthy(o) == OrEmpty(o) # << >>

(***************************************************************************)
(* The serializer classes of the model: the two of the test suite, Teacher *)
(* with its nested School, and classes of the same shapes that give a      *)
(* to-many relation, two to-one relations side by side, and a relation     *)
(* field that is no DynamicReadSerializerMixin.                            *)
(*   kind "scalar": a plain field;  "single": a nested                     *)
(*   DynamicReadSerializerMixin;  "many": a ListSerializer whose child is  *)
(*   one;  "plain": a relation field of another type                       *)
(*   (PrimaryKeyRelatedField).  rel: the model field is_relation.          *)
(***************************************************************************)
Fld(n, k, t, r) == [ name |-> n, kind |-> k, target |-> t, rel |-> r ]

DeclaredFields(cls) ==
    CASE cls = "School"   -> << Fld("id", "scalar", "", FALSE),
                                Fld("name", "scalar", "", FALSE) >>
      [] cls = "Address"  -> << Fld("id", "scalar", "", FALSE),
                                Fld("city", "scalar", "", FALSE) >>
      [] cls = "Teacher"  -> << Fld("id", "scalar", "", FALSE),
                                Fld("school", "single", "School", TRUE) >>
      [] cls = "Person"   -> << Fld("id", "scalar", "", FALSE),
                                Fld("name", "scalar", "", FALSE),
                                Fld("address", "single", "Address", TRUE) >>
      [] cls = "Staff"    -> << Fld("id", "scalar", "", FALSE),
                                Fld("address", "single", "Address", TRUE),
                                Fld("school", "single", "School", TRUE) >>
      [] cls = "District" -> << Fld("id", "scalar", "", FALSE),
                                Fld("name", "scalar", "", FALSE),
                                Fld("head", "plain", "", TRUE),
                                Fld("schools", "many", "School", TRUE) >>
      [] cls = "Pupil"    -> << Fld("id", "scalar", "", FALSE),
                                Fld("teacher", "single", "Teacher", TRUE) >>
      [] cls = "Mayor"    -> << Fld("id", "scalar", "", FALSE),
                                Fld("district", "single", "District", TRUE) >>
      [] cls = "Campus"   -> << Fld("id", "scalar", "", FALSE),
                                Fld("teachers", "many", "Teacher", TRUE),
                                Fld("address", "single", "Address", TRUE) >>
      [] cls = "Region"   -> << Fld("id", "scalar", "", FALSE),
                                Fld("districts", "many", "District", TRUE) >>
      [] cls = "Employee" -> << Fld("id", "scalar", "", FALSE),
                                Fld("manager", "single", "Employee", TRUE) >>
      [] cls = "Category" -> << Fld("id", "scalar", "", FALSE),
                                Fld("children", "many", "Category", TRUE) >>

\* the serializer classes a view is declared with
RootClasses == { "Teacher", "Person", "Staff", "District" }

\* the classes whose relations lead back to the class itself
CyclicClasses == { "Employee", "Category" }

\* DynamicReadSerializerMixin.get_concrete_classes(): the classes whose full
\* plan is computed
ConcreteClasses ==
    { "School", "Address", "Teacher", "Person", "Staff", "District",
      "Pupil", "Mayor", "Campus", "Region" } \cup CyclicClasses

\* set(fields.keys()) of a fresh serializer of the class
FieldNames(cls) == { DeclaredFields(cls)[i].name : i \in DOMAIN DeclaredFields(cls) }

\* the declared field of that name
FieldOf(cls, name) ==
    LET fs == DeclaredFields(cls)
    IN  fs[CHOOSE i \in DOMAIN fs : fs[i].name = name]

\* isinstance(child, DynamicReadSerializerMixin), or a ListSerializer of one
IsDynamicChild(f) == f.kind \in { "single", "many" }

(***************************************************************************)
(* The full plan of a serializer class.                                    *)
(***************************************************************************)
Plan(s, p) == [ select |-> s, prefetch |-> p ]

RECURSIVE get_final_fields(_, _)
RECURSIVE FinalFieldsFrom(_, _, _, _)

\* the loop over serializer.fields.items() from the i-th field on, with the
\* lists built so far
FinalFieldsFrom(cls, parent_accessor, i, acc) ==
    LET fs == DeclaredFields(cls)
    IN  IF i > Len(fs) THEN acc
        ELSE
        LET f == fs[i]
            is_many == f.kind = "many"
            own == parent_accessor \o f.name
        IN  IF ~f.rel \/ ~IsDynamicChild(f)
            THEN FinalFieldsFrom(cls, parent_accessor, i + 1, acc)
            ELSE
            LET sub == get_final_fields(f.target, own \o "__")
                sel1 == IF sub.select # << >>
                        THEN (IF ~is_many THEN acc.select \o sub.select
                                          ELSE acc.select)
                        ELSE (IF ~is_many THEN Append(acc.select, own)
                                          ELSE acc.select)
                pre1 == IF sub.select # << >> /\ is_many
                        THEN acc.prefetch \o sub.select
                        ELSE acc.prefetch
                pre2 == IF sub.prefetch # << >>
                        THEN pre1 \o sub.prefetch
                        ELSE (IF is_many THEN Append(pre1, own) ELSE pre1)
            IN  FinalFieldsFrom(cls, parent_accessor, i + 1, Plan(sel1, pre2))

\* get_final_fields(serializer, parent_accessor) of a serializer built with
\* disable_dynamic_read=True: every declared field is in serializer.fields
get_final_fields(cls, parent_accessor) ==
    FinalFieldsFrom(cls, parent_accessor, 1, Plan(<< >>, << >>))

\* get_all_select_prefetch(serializer_class)
get_all_select_prefetch(cls) == get_final_fields(cls, "")

(***************************************************************************)
(* Narrowing the plan for one request.                                     *)
(***************************************************************************)
\* each.startswith(field) or field.startswith(each)
PathMatch(each, field) == StartsWith(each, field) \/ StartsWith(field, each)

\* [each for each in all if each.startswith(field) or field.startswith(each)]
MatchesOf(all, field) == SelectSeq(all, LAMBDA each : PathMatch(each, field))

RECURSIVE ExtendMatches(_, _, _)
\* the loop `for field in request_fields: final.extend(...)`
ExtendMatches(final, all, request_fields) ==
    IF request_fields = << >> THEN final
    ELSE ExtendMatches(final \o MatchesOf(all, Head(request_fields)),
                       all, Tail(request_fields))

\* [each for each in final if not any(match(each, field) for field in omit)]
WithoutOmitted(final, request_omit_fields) ==
    SelectSeq(final, LAMBDA each :
        ~ \E i \in 1..Len(request_omit_fields) :
              PathMatch(each, request_omit_fields[i]))

\* one of the two lists, past the early return
NarrowList(all, request_fields, request_omit_fields) ==
    LET final == ExtendMatches(<< >>, all, request_fields)
    IN  IF request_omit_fields # << >>
        THEN WithoutOmitted(IF final = << >> THEN all ELSE final,
                            request_omit_fields)
        ELSE final

\* the mutant of Narrow without the early return
NarrowNoEarlyReturn(all, request_fields, request_omit_fields) ==
    Plan(NarrowList(all.select, request_fields, request_omit_fields),
         NarrowList(all.prefetch, request_fields, request_omit_fields))

\* the body of get_prefetch_select, given the full plan
Narrow(all, request_fields, request_omit_fields) ==
    IF request_fields = << >> /\ request_omit_fields = << >>
    THEN all
    ELSE Plan(NarrowList(all.select, request_fields, request_omit_fields),
              NarrowList(all.prefetch, request_fields, request_omit_fields))

\* get_prefetch_select(serializer_class, request_fields, request_omit_fields)
get_prefetch_select(cls, request_fields, request_omit_fields) ==
    Narrow(get_all_select_prefetch(cls), request_fields, request_omit_fields)

(***************************************************************************)
(* The request and the serializers that answer it.                         *)
(***************************************************************************)
VARIABLES
    pc,            \* where the request stands
    method,        \* request.method
    cls,           \* the view's serializer_class
    query_params,  \* request.query_params: "fields" and "omit", when given
    plan,          \* the (select, prefetch) handed to the queryset, or None
    narrowed,      \* the lru_cache of get_prefetch_select: arguments -> result
    nodes,         \* the serializer instances, by their path from the root
    stack,         \* the calls of get_final_fields in progress, outermost first
    err            \* the exception that ended the request, or "none"

vars == << pc, method, cls, query_params, plan, narrowed, nodes, stack, err >>

\* the tokens a client writes in `fields` and `omit`
Tokens == { "", "id", "sch", "schools", "school", "school__name",
            "address__city", "name__x" }

\* query_params.get(key, default)
QueryGet(qp, key, default) == IF key \in DOMAIN qp THEN qp[key] ELSE default

\* the view's tuple(query_params.get(key, "").split(",")), emptied when its
\* first token is empty
ViewTuple(qp, key) ==
    LET t == Split(QueryGet(qp, key, ""), ",")
    IN  IF t[1] = "" THEN << >> ELSE t

\* [each.split("__") for each in query_params.get(key).split(",")]
ParseParam(raw) == SplitEach(Split(raw, ","), "__")

RECURSIVE NodesUnder(_, _)
\* the serializer of class c at path n, and the nested ones below it
NodesUnder(c, n) ==
    { n } \cup UNION { NodesUnder(DeclaredFields(c)[i].target,
                                  Append(n, DeclaredFields(c)[i].name)) :
                       i \in { j \in DOMAIN DeclaredFields(c) :
                                 IsDynamicChild(DeclaredFields(c)[j]) } }

RECURSIVE ClassOf(_, _)
\* the class of the serializer at path n below a root of class c
ClassOf(c, n) ==
    IF n = << >> THEN c ELSE ClassOf(FieldOf(c, Head(n)).target, Tail(n))

\* self.parent of the serializer at path n
Parent(n) == SubSeq(n, 1, Len(n) - 1)

\* a serializer as its class declares it: __init__ of the mixin without
\* keyword arguments, no `depth` attribute yet (read as 0)
FreshNode(c) ==
    [ depth   |-> 0,
      dff     |-> None,            \* dynamic_filter_fields
      dof     |-> None,            \* dynamic_omit_fields
      disable |-> FALSE,           \* disable_dynamic_read
      passes  |-> 0,               \* calls of to_representation so far
      fields  |-> FieldNames(c),   \* the keys left in self.fields
      dr_meta |-> None ]           \* dr_meta of the dynamic_read package

Init ==
    /\ pc = "idle"
    /\ method = "GET"
    /\ cls = "Teacher"
    /\ query_params = << >>
    /\ plan = None
    /\ narrowed = << >>
    /\ nodes = << >>
    /\ stack = << >>
    /\ err = "none"

\* a request arrives: its method, the view it reaches, its query string
NewRequest ==
    /\ pc = "idle"
    /\ \E m \in { "GET", "POST" }, c \in RootClasses,
          nf \in 0..MaxTokens, no \in 0..MaxTokens :
          /\ nf + no <= MaxTokens
          /\ \E ft \in [ 1..nf -> Tokens ], ot \in [ 1..no -> Tokens ],
                keys \in SUBSET { "fields", "omit" } :
                /\ nf > 0 => "fields" \in keys
                /\ no > 0 => "omit" \in keys
                /\ method' = m
                /\ cls' = c
                /\ query_params' =
                       [ k \in keys |-> IF k = "fields" THEN Join(ft, ",")
                                                        ELSE Join(ot, ",") ]
                /\ nodes' = [ n \in NodesUnder(c, << >>) |->
                                  FreshNode(ClassOf(c, n)) ]
    /\ pc' = "request"
    /\ UNCHANGED << plan, narrowed, stack, err >>

\* DynamicReadViewMixin.get_queryset
GetQueryset ==
    /\ pc = "request"
    /\ LET fields == ViewTuple(query_params, "fields")
           omit == ViewTuple(query_params, "omit")
           result == get_prefetch_select(cls, fields, omit)
       IN  IF method = "GET"
           THEN /\ narrowed' = (<< cls, fields, omit >> :> result)
                /\ plan' = Some(result)
           ELSE UNCHANGED << plan, narrowed >>
    /\ pc' = "serialize"
    /\ UNCHANGED << method, cls, query_params, nodes, stack, err >>

(***************************************************************************)
(* The serializer's `fields` property and process_fields_for_dynamic_read. *)
(***************************************************************************)
\* a field set, or the exception raised instead
Returned(names) == [ raised |-> "none", names |-> names ]
Raised(exc) == [ raised |-> exc, names |-> {} ]

\* [_f for _f in segments if _f], as a set
NonEmpty(segments) == { x \in SeqToSet(segments) : x # "" }

\* the mutant of FieldsProperty that lets an omit path of any length exclude
\* its segment at the current depth
FieldsPropertyOmitAnyLength(self) ==
    IF self.disable THEN Returned(self.fields)
    ELSE
    LET current_depth == self.depth
        existing == self.fields
        ff == OrEmpty(self.dff)
        of == OrEmpty(self.dof)
    IN  IF \E i \in 1..Len(ff) : Len(ff[i]) <= current_depth
        THEN Raised("IndexError")
        ELSE
        LET filter_fields == SegmentAt(ff, current_depth)
            omit_fields ==
                SegmentAt(SelectSeq(of, LAMBDA p : Len(p) >= current_depth + 1),
                          current_depth)
            allowed == IF NonEmpty(filter_fields) # {}
                       THEN NonEmpty(filter_fields) ELSE existing
            excluded == NonEmpty(omit_fields)
        IN  Returned({ field \in existing :
                         ~ (field \notin allowed \/ field \in excluded) })

\* the `fields` property: the keys left in the serializer's field dict
FieldsProperty(self) ==
    IF self.disable THEN Returned(self.fields)
    ELSE
    LET current_depth == self.depth
        existing == self.fields
        ff == OrEmpty(self.dff)
        of == OrEmpty(self.dof)
    IN  \* filter_field[current_depth] for every filter path
        IF \E i \in 1..Len(ff) : Len(ff[i]) <= current_depth
        THEN Raised("IndexError")
        ELSE
        LET filter_fields == SegmentAt(ff, current_depth)
            omit_fields ==
                SegmentAt(SelectSeq(of, LAMBDA p : Len(p) = current_depth + 1),
                          current_depth)
            allowed == IF NonEmpty(filter_fields) # {}
                       THEN NonEmpty(filter_fields) ELSE existing
            excluded == NonEmpty(omit_fields)
        IN  Returned({ field \in existing :
                         ~ (field \notin allowed \/ field \in excluded) })

\* the mutant of ChildAfter that hands down a filter path ending at the child
ChildAfterKeepsTerminal(child, child_field_name, current_depth, dff, dof) ==
    [ child EXCEPT
        !.depth = current_depth + 1,
        !.dff = Some(OrEmpty(child.dff)
                     \o SelectSeq(OrEmpty(dff), LAMBDA p :
                            child_field_name = p[current_depth + 1])),
        !.dof = Some(OrEmpty(child.dof)
                     \o SelectSeq(OrEmpty(dof), LAMBDA p :
                            child_field_name = p[current_depth + 1])) ]

\* a nested serializer after its parent's loop body: depth set, the lists
\* pre-set to [] and the parent's matching paths appended
ChildAfter(child, child_field_name, current_depth, dff, dof) ==
    [ child EXCEPT
        !.depth = current_depth + 1,
        !.dff = Some(OrEmpty(child.dff)
                     \o SelectSeq(OrEmpty(dff), LAMBDA p :
                            child_field_name = p[current_depth + 1]
                            /\ current_depth + 1 < Len(p))),
        !.dof = Some(OrEmpty(child.dof)
                     \o SelectSeq(OrEmpty(dof), LAMBDA p :
                            child_field_name = p[current_depth + 1])) ]

\* the serializer at path n once process_fields_for_dynamic_read has read the
\* request: its own record, with the flag inherited and the lists taken from
\* the query string when it is the root
AfterReadingRequest(n) ==
    LET self == nodes[n]
        is_real_root == n = << >>
        \* getattr(self.parent, "disable_dynamic_read", False): the parent of
        \* a ListSerializer's child is the ListSerializer, which has no flag
        inherited == self.disable
                     \/ (IF n = << >> THEN FALSE
                         ELSE /\ FieldOf(ClassOf(cls, Parent(n)),
                                         n[Len(n)]).kind = "single"
                              /\ nodes[Parent(n)].disable)
    IN  IF inherited THEN [ self EXCEPT !.disable = TRUE ]
        ELSE [ self EXCEPT
                 !.dff = IF IsNone(self.dff) /\ "fields" \in DOMAIN query_params
                            /\ is_real_root
                         THEN Some(ParseParam(query_params["fields"]))
                         ELSE @,
                 !.dof = IF IsNone(self.dof) /\ "omit" \in DOMAIN query_params
                            /\ is_real_root
                         THEN Some(ParseParam(query_params["omit"]))
                         ELSE @ ]

\* the nested serializers the loop over self.fields.items() hands paths to
DynamicChildren(c, names) ==
    { name \in names : IsDynamicChild(FieldOf(c, name)) }

\* to_representation of the serializer at path n: the whole of
\* process_fields_for_dynamic_read, with the evaluation of self.fields in it
ToRepresentation(n) ==
    /\ pc = "serialize"
    /\ n \in DOMAIN nodes
    /\ nodes[n].passes < MaxPasses
    /\ n # << >> => /\ nodes[Parent(n)].passes > 0
                    /\ n[Len(n)] \in nodes[Parent(n)].fields
    /\ LET c == ClassOf(cls, n)
           self == AfterReadingRequest(n)
           got == FieldsProperty(self)
           current_depth == self.depth
           kids == DynamicChildren(c, got.names)
           hands == Truthy(self.dff) \/ Truthy(self.dof)
       IN  IF self.disable
           THEN /\ nodes' = [ nodes EXCEPT ![n] =
                                [ self EXCEPT !.passes = @ + 1 ] ]
                /\ UNCHANGED << pc, err >>
           ELSE IF got.raised # "none"
           THEN /\ err' = got.raised
                /\ pc' = "failed"
                /\ UNCHANGED nodes
           ELSE IF /\ hands /\ kids # {}
                   /\ \E i \in 1..Len(OrEmpty(self.dof)) :
                          Len(OrEmpty(self.dof)[i]) <= current_depth
           THEN \* omit_field[current_depth] past the end of an omit path
                /\ err' = "IndexError"
                /\ pc' = "failed"
                /\ UNCHANGED nodes
           ELSE /\ nodes' =
                     [ m \in DOMAIN nodes |->
                         IF m = n
                         THEN [ self EXCEPT !.passes = @ + 1,
                                            !.fields = got.names ]
                         ELSE IF /\ hands
                                 /\ Len(m) = Len(n) + 1
                                 /\ Parent(m) = n
                                 /\ m[Len(m)] \in kids
                         THEN ChildAfter(nodes[m], m[Len(m)], current_depth,
                                         self.dff, self.dof)
                         ELSE nodes[m] ]
                /\ UNCHANGED << pc, err >>
    /\ UNCHANGED << method, cls, query_params, plan, narrowed, stack >>

(***************************************************************************)
(* The dynamic_read package: the serializer is built by the view with the  *)
(* request's lists, holds them as a tree (dr_meta), and derives its fields *)
(* from that tree.                                                         *)
(***************************************************************************)
\* the view's `fields` / `omit` property:
\* tuple(unparsed.split(",")) if unparsed else tuple()
ViewProperty(qp, key) ==
    LET unparsed == QueryGet(qp, key, "")
    IN  IF unparsed = "" THEN << >> ELSE Split(unparsed, ",")

\* field.endswith("_id")
EndsWithId(field) ==
    Len(field) >= 3 /\ SubSeq(field, Len(field) - 2, Len(field)) = "_id"

\* the paths that go on below first segment k, without that segment
Below(paths, k) ==
    LET on == SelectSeq(paths, LAMBDA p : Len(p) >= 2 /\ p[1] = k)
    IN  [ i \in 1..Len(on) |-> Tail(on[i]) ]

RECURSIVE process_field_options(_, _)
\* the tree of one level: the names asked for at this level, whether all
\* are (an omit path went through it), the names omitted at this level, and
\* the tree of every name that a path goes on below
process_field_options(filter_fields, omit_fields) ==
    [ fields    |-> { p[1] : p \in { q \in SeqToSet(filter_fields) :
                                       ~EndsWithId(q[1]) } },
      id_fields |-> { p[1] : p \in { q \in SeqToSet(filter_fields) :
                                       EndsWithId(q[1]) } },
      all       |-> omit_fields # << >>,
      omit      |-> { p[1] : p \in { q \in SeqToSet(omit_fields) :
                                       Len(q) = 1 } },
      nested    |-> [ k \in { p[1] : p \in { q \in SeqToSet(filter_fields)
                                             \cup SeqToSet(omit_fields) :
                                               Len(q) >= 2 } } |->
                        process_field_options(Below(filter_fields, k),
                                              Below(omit_fields, k)) ] ]

\* get_serializer of the view, and with it __init__ of the serializer
GetSerializer ==
    /\ pc = "request"
    /\ LET filter_fields == IF method = "GET"
                            THEN ViewProperty(query_params, "fields")
                            ELSE << >>
           omit_fields == IF method = "GET"
                          THEN ViewProperty(query_params, "omit")
                          ELSE << >>
       IN  IF filter_fields # << >> /\ omit_fields # << >>
           THEN \* "Pass either filter_fields or omit_fields, not both"
                /\ err' = "AssertionError"
                /\ pc' = "failed"
                /\ UNCHANGED << plan, narrowed, nodes >>
           ELSE /\ nodes' =
                     [ nodes EXCEPT ![<< >>].dr_meta =
                         IF filter_fields # << >> \/ omit_fields # << >>
                         THEN Some(process_field_options(
                                  SplitEach(filter_fields, "__"),
                                  SplitEach(omit_fields, "__")))
                         ELSE None ]
                /\ \E optimize_queryset \in BOOLEAN :
                       IF optimize_queryset
                       THEN LET result == get_prefetch_select(
                                              cls, filter_fields, omit_fields)
                            IN  /\ narrowed' = (<< cls, filter_fields,
                                                   omit_fields >> :> result)
                                /\ plan' = Some(result)
                       ELSE UNCHANGED << plan, narrowed >>
                /\ pc' = "constructed"
                /\ UNCHANGED err
    /\ UNCHANGED << method, cls, query_params, stack >>

\* extract_serializer_from_child raises ChildNotSupported for this field
ChildNotSupported(f) == ~IsDynamicChild(f)

\* derive_desired_fields: the names kept, or the exception of the loop that
\* attaches the nested trees
derive_desired_fields(dr_meta, c, field_names) ==
    LET desired == IF dr_meta.omit # {}
                   THEN field_names \ dr_meta.omit
                   ELSE IF dr_meta.all THEN field_names
                   ELSE dr_meta.fields \cap field_names
    IN  IF \E k \in DOMAIN dr_meta.nested :
               k \in field_names /\ ChildNotSupported(FieldOf(c, k))
        THEN Raised("ChildNotSupported")
        ELSE Returned(desired)

\* the cached `fields` property of the serializer at path n, evaluated when
\* the serializer is first rendered
CachedFields(n) ==
    /\ pc = "constructed"
    /\ n \in DOMAIN nodes
    /\ nodes[n].passes = 0
    /\ n # << >> => /\ nodes[Parent(n)].passes > 0
                    /\ n[Len(n)] \in nodes[Parent(n)].fields
    /\ LET c == ClassOf(cls, n)
           self == nodes[n]
           field_names == FieldNames(c)
       IN  IF IsNone(self.dr_meta)
           THEN /\ nodes' = [ nodes EXCEPT ![n].passes = 1 ]
                /\ UNCHANGED << pc, err >>
           ELSE
           LET meta == self.dr_meta[1]
               got == derive_desired_fields(meta, c, field_names)
           IN  IF got.raised # "none"
               THEN /\ err' = got.raised
                    /\ pc' = "failed"
                    /\ UNCHANGED nodes
               ELSE /\ nodes' =
                         [ m \in DOMAIN nodes |->
                             IF m = n
                             THEN [ self EXCEPT !.passes = 1,
                                                !.fields = got.names ]
                             ELSE IF /\ Len(m) = Len(n) + 1
                                     /\ Parent(m) = n
                                     /\ m[Len(m)] \in DOMAIN meta.nested
                             THEN [ nodes[m] EXCEPT !.dr_meta =
                                      Some(meta.nested[m[Len(m)]]) ]
                             ELSE nodes[m] ]
                    /\ UNCHANGED << pc, err >>
    /\ UNCHANGED << method, cls, query_params, plan, narrowed, stack >>

Next ==
    \/ NewRequest
    \/ GetQueryset
    \/ \E n \in DOMAIN nodes : ToRepresentation(n)
    \/ GetSerializer
    \/ \E n \in DOMAIN nodes : CachedFields(n)

Spec == Init /\ [][Next]_vars

(***************************************************************************)
(* The computation of a class's full plan, call by call: get_final_fields  *)
(* on a serializer built with disable_dynamic_read=True, each call a frame *)
(* of the stack.  The nested serializers of a serializer come to exist     *)
(* when its fields are first evaluated.                                    *)
(***************************************************************************)
\* the mutant of Absorb that puts what a to-many relation's sub-plan selects
\* into the select list
AbsorbPromotes(acc, sub, is_many, own) ==
    LET sel == IF sub.select # << >> THEN acc.select \o sub.select
               ELSE IF ~is_many THEN Append(acc.select, own)
               ELSE acc.select
        pre == IF sub.prefetch # << >> THEN acc.prefetch \o sub.prefetch
               ELSE IF is_many THEN Append(acc.prefetch, own)
               ELSE acc.prefetch
    IN  Plan(sel, pre)

\* the mutant of Absorb that never appends a to-many relation's own path
AbsorbDropsOwnPrefetch(acc, sub, is_many, own) ==
    LET sel == IF sub.select # << >>
               THEN (IF ~is_many THEN acc.select \o sub.select ELSE acc.select)
               ELSE (IF ~is_many THEN Append(acc.select, own) ELSE acc.select)
        pre1 == IF sub.select # << >> /\ is_many
                THEN acc.prefetch \o sub.select ELSE acc.prefetch
        pre2 == IF sub.prefetch # << >> THEN pre1 \o sub.prefetch ELSE pre1
    IN  Plan(sel, pre2)

\* the mutant of Absorb that appends a relation's own path whenever the
\* sub-plan selects nothing, for a to-many relation too
AbsorbOwnOnEmptySelect(acc, sub, is_many, own) ==
    LET sel == IF sub.select # << >>
               THEN (IF ~is_many THEN acc.select \o sub.select ELSE acc.select)
               ELSE (IF ~is_many THEN Append(acc.select, own) ELSE acc.select)
        pre1 == IF sub.select # << >>
                THEN (IF is_many THEN acc.prefetch \o sub.select
                                 ELSE acc.prefetch)
                ELSE (IF is_many THEN Append(acc.prefetch, own)
                                 ELSE acc.prefetch)
        pre2 == IF sub.prefetch # << >> THEN pre1 \o sub.prefetch ELSE pre1
    IN  Plan(sel, pre2)

\* the lists of a call after the sub-plan of one nested dynamic serializer
\* has come back: the two if / elif of the loop body
Absorb(acc, sub, is_many, own) ==
    LET sel == IF sub.select # << >>
               THEN (IF ~is_many THEN acc.select \o sub.select ELSE acc.select)
               ELSE (IF ~is_many THEN Append(acc.select, own) ELSE acc.select)
        pre1 == IF sub.select # << >> /\ is_many
                THEN acc.prefetch \o sub.select ELSE acc.prefetch
        pre2 == IF sub.prefetch # << >> THEN pre1 \o sub.prefetch
                ELSE IF is_many THEN Append(pre1, own)
                ELSE pre1
    IN  Plan(sel, pre2)

\* a call of get_final_fields on the serializer at path n
Frame(n, parent_accessor) ==
    [ node |-> n, accessor |-> parent_accessor, i |-> 1,
      select |-> << >>, prefetch |-> << >> ]

\* the innermost call
Top == stack[Len(stack)]

\* serializer.fields.items() of the serializer at path n, in declared order
FieldItems(n) ==
    SelectSeq(DeclaredFields(ClassOf(cls, n)),
              LAMBDA f : f.name \in nodes[n].fields)

\* the serializers after process_fields_for_dynamic_read() and the
\* evaluation of `fields` on the one at path n; no path list is set while a
\* plan is computed, so `fields` raises nothing here
Entered(n) ==
    LET c == ClassOf(cls, n)
        self == AfterReadingRequest(n)
        got == FieldsProperty(self)
        kids == DynamicChildren(c, got.names)
        hands == ~self.disable /\ (Truthy(self.dff) \/ Truthy(self.dof))
    IN  [ m \in DOMAIN nodes \cup { Append(n, k) : k \in kids } |->
            IF m = n
            THEN [ self EXCEPT !.passes = @ + 1, !.fields = got.names ]
            ELSE LET was == IF m \in DOMAIN nodes THEN nodes[m]
                            ELSE FreshNode(ClassOf(cls, m))
                 IN  IF hands /\ Len(m) = Len(n) + 1 /\ Parent(m) = n
                        /\ m[Len(m)] \in kids
                     THEN ChildAfter(was, m[Len(m)], self.depth,
                                     self.dff, self.dof)
                     ELSE was ]

\* get_all_select_prefetch(serializer_class): the serializer is built with
\* disable_dynamic_read=True and without a context
BuildRoot ==
    /\ pc = "idle"
    /\ \E c \in ConcreteClasses :
          /\ cls' = c
          /\ nodes' = (<< >> :> [ FreshNode(c) EXCEPT !.disable = TRUE ])
    /\ pc' = "built"
    /\ UNCHANGED << method, query_params, plan, narrowed, stack, err >>

\* the outermost call of get_final_fields
CallOnRoot ==
    /\ pc = "built"
    /\ nodes' = Entered(<< >>)
    /\ stack' = << Frame(<< >>, "") >>
    /\ pc' = "planning"
    /\ UNCHANGED << method, cls, query_params, plan, narrowed, err >>

\* the loop passes a field that is no relation of the model or no nested
\* dynamic serializer
SkipField ==
    /\ pc = "planning"
    /\ Top.i <= Len(FieldItems(Top.node))
    /\ LET f == FieldItems(Top.node)[Top.i]
       IN  ~f.rel \/ ~IsDynamicChild(f)
    /\ stack' = [ stack EXCEPT ![Len(stack)].i = @ + 1 ]
    /\ UNCHANGED << pc, method, cls, query_params, plan, narrowed, nodes, err >>

\* the loop reaches a nested dynamic serializer and calls itself on it
Descend ==
    /\ pc = "planning"
    /\ Top.i <= Len(FieldItems(Top.node))
    /\ LET f == FieldItems(Top.node)[Top.i]
           child == Append(Top.node, f.name)
       IN  /\ f.rel /\ IsDynamicChild(f)
           /\ IF Len(stack) < MaxDepth
              THEN /\ nodes' = Entered(child)
                   /\ stack' = Append(stack,
                                      Frame(child,
                                            Top.accessor \o f.name \o "__"))
                   /\ UNCHANGED << pc, err >>
              ELSE /\ err' = "RecursionError"
                   /\ pc' = "failed"
                   /\ UNCHANGED << nodes, stack >>
    /\ UNCHANGED << method, cls, query_params, plan, narrowed >>

\* a call returns its two lists: to the loop of the call above, or as the
\* full plan
Return ==
    /\ pc = "planning"
    /\ Top.i > Len(FieldItems(Top.node))
    /\ LET sub == Plan(Top.select, Top.prefetch)
       IN  IF Len(stack) = 1
           THEN /\ plan' = Some(sub)
                /\ stack' = << >>
                /\ pc' = "planned"
           ELSE LET above == stack[Len(stack) - 1]
                    f == FieldItems(above.node)[above.i]
                    got == Absorb(Plan(above.select, above.prefetch), sub,
                                  f.kind = "many", above.accessor \o f.name)
                IN  /\ stack' = [ SubSeq(stack, 1, Len(stack) - 1) EXCEPT
                                    ![Len(stack) - 1] =
                                        [ above EXCEPT !.i = @ + 1,
                                                       !.select = got.select,
                                                       !.prefetch = got.prefetch ] ]
                    /\ UNCHANGED << plan, pc >>
    /\ UNCHANGED << method, cls, query_params, narrowed, nodes, err >>

PlanNext ==
    \/ BuildRoot
    \/ CallOnRoot
    \/ SkipField
    \/ Descend
    \/ Return

PlanSpec == Init /\ [][PlanNext]_vars

(***************************************************************************)
(* What the claims speak of.                                               *)
(***************************************************************************)
\* a path as its whole `__`-separated segments
Segments(path) == Split(path, "__")

\* sequence a is a prefix of sequence b
IsPrefix(a, b) == Len(a) <= Len(b) /\ SubSeq(b, 1, Len(a)) = a

\* P is a prefix of F or F is a prefix of P, segment by segment
SegmentMatch(P, F) ==
    \/ IsPrefix(Segments(P), Segments(F))
    \/ IsPrefix(Segments(F), Segments(P))

\* s is a subsequence of all (all without duplicates): only paths of all,
\* each at most once, in the order of all
IsSubsequence(s, all) ==
    /\ \A i \in DOMAIN s : s[i] \in SeqToSet(all)
    /\ \A i, j \in DOMAIN s :
           i < j => \E a, b \in DOMAIN all :
                        a < b /\ all[a] = s[i] /\ all[b] = s[j]

\* the tokens of a list that are not the empty string
WithoutEmpty(tokens) == SelectSeq(tokens, LAMBDA t : t # "")

\* the calls of get_prefetch_select made so far: (class, fields, omit)
Calls == DOMAIN narrowed

(***************************************************************************)
(* C1: get_prefetch_select with an empty allow-list and an empty omit-list *)
(* returns exactly the full plan of the class, same paths in the same      *)
(* order.                                                                  *)
(***************************************************************************)
C1_EmptyListsReturnFullPlan ==
    \A k \in Calls :
        (k[2] = << >> /\ k[3] = << >>)
            => narrowed[k] = get_all_select_prefetch(k[1])

\* the call was made for a class whose full plan has two select paths
C1_Witness ==
    \E k \in Calls :
        /\ k[2] = << >> /\ k[3] = << >>
        /\ k[1] = "Staff"
        /\ narrowed[k] = Plan(<< "address", "school" >>, << >>)

(***************************************************************************)
(* C2: with a non-empty allow-list and an empty omit-list, a path P of the *)
(* full plan is in the narrowed list if and only if some allow-path F has  *)
(* P as a prefix or is a prefix of P, by whole segments; select and        *)
(* prefetch alike.  (`sch` and `schools` do not select `school`.)          *)
(***************************************************************************)
C2_AllowSelectsBySegmentPrefix ==
    \A k \in Calls :
        (k[2] # << >> /\ k[3] = << >>) =>
            LET all == get_all_select_prefetch(k[1])
                Asked(P) == \E i \in DOMAIN k[2] : SegmentMatch(P, k[2][i])
            IN  /\ \A P \in SeqToSet(all.select) :
                       P \in SeqToSet(narrowed[k].select) <=> Asked(P)
                /\ \A P \in SeqToSet(all.prefetch) :
                       P \in SeqToSet(narrowed[k].prefetch) <=> Asked(P)

(***************************************************************************)
(* C3: with allow-paths and omit-paths both supplied, every path of the    *)
(* returned select and prefetch lists is matched by at least one           *)
(* allow-path and by no omit-path: the lists are seeded from the full plan *)
(* only when no allow-path was supplied.  The match is taken in the code's *)
(* own sense, each.startswith(field) or field.startswith(each), which      *)
(* every whole-segment match also satisfies.                               *)
(***************************************************************************)
C3_SeedOnlyWithoutAllowPaths ==
    \A k \in Calls :
        (k[2] # << >> /\ k[3] # << >>) =>
            \A P \in SeqToSet(narrowed[k].select)
                     \cup SeqToSet(narrowed[k].prefetch) :
                /\ \E i \in DOMAIN k[2] : PathMatch(P, k[2][i])
                /\ ~ \E i \in DOMAIN k[3] : PathMatch(P, k[3][i])

(***************************************************************************)
(* C4: each list returned by get_prefetch_select is a subsequence of the   *)
(* full plan's list: only its paths, each at most once, in its order.      *)
(***************************************************************************)
C4_ResultIsSubsequenceOfFullPlan ==
    \A k \in Calls :
        LET all == get_all_select_prefetch(k[1])
        IN  /\ IsSubsequence(narrowed[k].select, all.select)
            /\ IsSubsequence(narrowed[k].prefetch, all.prefetch)

(***************************************************************************)
(* C5: narrowing is idempotent: narrowing the narrowed plan again with the *)
(* same allow-list and omit-list gives the narrowed plan.                  *)
(***************************************************************************)
C5_NarrowingIsIdempotent ==
    \A k \in Calls :
        Narrow(narrowed[k], k[2], k[3]) = narrowed[k]

(***************************************************************************)
(* C6: an empty-string token matches nothing: in an allow-list it adds no  *)
(* path, in an omit-list it removes none, and the other tokens of the list *)
(* are applied as they are without it.                                     *)
(***************************************************************************)
C6_EmptyTokenMatchesNothing ==
    \A k \in Calls :
        LET all == get_all_select_prefetch(k[1])
        IN  /\ ("" \in SeqToSet(k[2]) /\ k[3] = << >>) =>
                   narrowed[k] =
                       Plan(ExtendMatches(<< >>, all.select, WithoutEmpty(k[2])),
                            ExtendMatches(<< >>, all.prefetch, WithoutEmpty(k[2])))
            /\ ("" \in SeqToSet(k[3]) /\ k[2] = << >>) =>
                   narrowed[k] =
                       Plan(WithoutOmitted(all.select, WithoutEmpty(k[3])),
                            WithoutOmitted(all.prefetch, WithoutEmpty(k[3])))

\* the serializers rendered by to_representation of the mixin with
\* process_fields_for_dynamic_read, filtering on
Rendered ==
    IF pc = "serialize"
    THEN { n \in DOMAIN nodes : nodes[n].passes > 0 /\ ~nodes[n].disable }
    ELSE {}

\* allowed minus excluded, as the claim defines them
VisibleFields(E, allow, omit, d) ==
    LET segments == { p[d + 1] : p \in { q \in allow : Len(q) > d } } \ { "" }
        allowed == IF segments # {} THEN E \cap segments ELSE E
        excluded == { p[d + 1] : p \in { q \in omit : Len(q) = d + 1 } } \ { "" }
    IN  allowed \ excluded

C8_ChildGetsMatchingPathsUnchanged ==
    \A n \in Rendered :
        (Truthy(nodes[n].dff) \/ Truthy(nodes[n].dof)) =>
            \A f \in DynamicChildren(ClassOf(cls, n), nodes[n].fields) :
                LET d == nodes[n].depth
                    child == nodes[Append(n, f)]
                IN  /\ child.depth = d + 1
                    /\ ~IsNone(child.dff) /\ ~IsNone(child.dof)
                    /\ SeqToSet(OrEmpty(child.dff)) =
                           { p \in SeqToSet(OrEmpty(nodes[n].dff)) :
                               Len(p) > d + 1 /\ p[d + 1] = f }
                    /\ SeqToSet(OrEmpty(child.dof)) =
                           { p \in SeqToSet(OrEmpty(nodes[n].dof)) :
                               Len(p) >= d + 1 /\ p[d + 1] = f }

\* allow `address__city` on {id, name, address}: {address} at depth 0, the
\* path handed down whole, {city} in the child at depth 1
C8_Witness ==
    /\ cls = "Person"
    /\ query_params = [ k \in { "fields" } |-> "address__city" ]
    /\ << "address" >> \in Rendered
    /\ nodes[<< >>].fields = { "address" }
    /\ nodes[<< "address" >>].depth = 1
    /\ SeqToSet(OrEmpty(nodes[<< "address" >>].dff))
           = { << "address", "city" >> }
    /\ nodes[<< "address" >>].fields = { "city" }

(***************************************************************************)
(* C9: a GET request that supplies a non-empty `fields` list and a         *)
(* non-empty `omit` list fails at once: no narrowed plan is computed from  *)
(* the two lists and no serializer renders with them.                      *)
(***************************************************************************)
C9_BothListsAreRejected ==
    ( /\ pc # "idle"
      /\ method = "GET"
      /\ ViewTuple(query_params, "fields") # << >>
      /\ ViewTuple(query_params, "omit") # << >> )
        => /\ Calls = {}
           /\ \A n \in DOMAIN nodes : nodes[n].passes = 0

(***************************************************************************)
(* C10: whatever the allow-list or omit-list, paths naming absent fields   *)
(* or going on below a field that is no nested dynamic serializer          *)
(* included, computing a node's fields and handing the lists to its        *)
(* children raises nothing.                                                *)
(***************************************************************************)
C10_UnknownPathsNeverRaise ==
    err \notin { "IndexError", "KeyError", "ChildNotSupported" }

(***************************************************************************)
(* The claims about the full plan are checked under PlanSpec.              *)
(***************************************************************************)
\* the serializers get_final_fields was called on
Visited == { n \in DOMAIN nodes : nodes[n].passes > 0 }

\* the accessor path of field name under the serializer at path n
AccessorPath(n, name) == Join(Append(n, name), "__")

\* the full plan, once computed
FullPlan == plan[1]

(***************************************************************************)
(* C11: in a computed full plan, every relation field of a visited         *)
(* serializer that is no nested dynamic serializer (a primary-key related  *)
(* field: single-valued) has its own accessor path in the select list.     *)
(***************************************************************************)
C11_PlainRelationIsLeaf ==
    pc = "planned" =>
        \A n \in Visited : \A i \in DOMAIN FieldItems(n) :
            LET f == FieldItems(n)[i]
            IN  (f.rel /\ ~IsDynamicChild(f)) =>
                    AccessorPath(n, f.name) \in SeqToSet(FullPlan.select)

\* a call returns to the loop of the call above it
ReturnsToCaller ==
    /\ pc = "planning"
    /\ Len(stack) > 1
    /\ Len(stack') = Len(stack) - 1

\* the relation field the call above is at, and its own path
CallerField == FieldItems(stack[Len(stack) - 1].node)[stack[Len(stack) - 1].i]
CallerOwnPath == stack[Len(stack) - 1].accessor \o CallerField.name

\* what the return appends to the select and prefetch lists of the call above
AppendedSelect ==
    SubSeq(stack'[Len(stack')].select,
           Len(stack[Len(stack) - 1].select) + 1,
           Len(stack'[Len(stack')].select))
AppendedPrefetch ==
    SubSeq(stack'[Len(stack')].prefetch,
           Len(stack[Len(stack) - 1].prefetch) + 1,
           Len(stack'[Len(stack')].prefetch))

(***************************************************************************)
(* C12 as stated: when the sub-plan of a nested dynamic serializer comes   *)
(* back, the relation's own path is appended (to select if single-valued,  *)
(* to prefetch if multi-valued) exactly when the sub-plan's select list is *)
(* empty; a non-empty sub-select goes to select (single-valued) or to      *)
(* prefetch (multi-valued); the sub-prefetch always goes to prefetch.      *)
(***************************************************************************)
C12_OwnPathIffSubSelectEmpty ==
    [][ ReturnsToCaller =>
          LET many == CallerField.kind = "many"
              own == CallerOwnPath
              subSelect == Top.select
              subPrefetch == Top.prefetch
              ownList == IF many THEN AppendedPrefetch ELSE AppendedSelect
              otherList == IF many THEN AppendedSelect ELSE AppendedPrefetch
          IN  /\ (own \in SeqToSet(ownList)) <=> (subSelect = << >>)
              /\ own \notin SeqToSet(otherList)
              /\ SeqToSet(subSelect) \subseteq SeqToSet(ownList)
              /\ SeqToSet(subSelect) \cap SeqToSet(otherList) = {}
              /\ SeqToSet(subPrefetch) \subseteq SeqToSet(AppendedPrefetch)
    ]_vars

(***************************************************************************)
(* C12, amended: the own path is appended to select exactly when the       *)
(* relation is single-valued and the sub-select is empty, and to prefetch  *)
(* exactly when the relation is multi-valued and the sub-prefetch is       *)
(* empty; a non-empty sub-select goes to select (single-valued) or to      *)
(* prefetch (multi-valued); the sub-prefetch always goes to prefetch; and  *)
(* nothing else is appended.                                               *)
(***************************************************************************)
C12_OwnPathPerList ==
    [][ ReturnsToCaller =>
          LET many == CallerField.kind = "many"
              own == CallerOwnPath
              subSelect == Top.select
              subPrefetch == Top.prefetch
          IN  /\ (own \in SeqToSet(AppendedSelect))
                     <=> (~many /\ subSelect = << >>)
              /\ (own \in SeqToSet(AppendedPrefetch))
                     <=> (many /\ subPrefetch = << >>)
              /\ SeqToSet(AppendedSelect) \ { own }
                     = (IF many THEN {} ELSE SeqToSet(subSelect))
              /\ SeqToSet(AppendedPrefetch) \ { own }
                     = (IF many THEN SeqToSet(subSelect) ELSE {})
                           \cup SeqToSet(subPrefetch)
              /\ Len(AppendedSelect) + Len(AppendedPrefetch)
                     = Len(subSelect) + Len(subPrefetch)
                         + (IF ~many /\ subSelect = << >> THEN 1 ELSE 0)
                         + (IF many /\ subPrefetch = << >> THEN 1 ELSE 0)
    ]_vars

\* the sub-plan of Campus.teachers (select non-empty, prefetch empty) has
\* come back: the own path follows the absorbed sub-select
C12_Witness ==
    /\ pc = "planning"
    /\ cls = "Campus"
    /\ Len(stack) = 1
    /\ Top.select = << >>
    /\ Top.prefetch = << "teachers__school", "teachers" >>

\* the path, a sequence of relation names followed from class c, goes through
\* a to-many relation
RECURSIVE HasManyHop(_, _)
HasManyHop(c, segs) ==
    /\ segs # << >>
    /\ \/ FieldOf(c, segs[1]).kind = "many"
       \/ HasManyHop(FieldOf(c, segs[1]).target, Tail(segs))

(***************************************************************************)
(* C13: every path of the select list of a full plan follows to-one        *)
(* relations only from the root, and every path a call of get_final_fields *)
(* holds in its select list follows to-one relations only from the         *)
(* serializer the call is on; so a path through a to-many relation is in a *)
(* prefetch list only.                                                     *)
(***************************************************************************)
C13_SelectFollowsOnlySingleRelations ==
    /\ \A k \in DOMAIN stack : \A p \in SeqToSet(stack[k].select) :
           ~HasManyHop(ClassOf(cls, stack[k].node),
                       SubSeq(Segments(p), Len(stack[k].node) + 1,
                              Len(Segments(p))))
    /\ pc = "planned" =>
           \A p \in SeqToSet(FullPlan.select) : ~HasManyHop(cls, Segments(p))

\* Campus: the to-one relation below the to-many `teachers` is prefetched,
\* the to-one relation of the root itself is selected
C13_Witness ==
    /\ pc = "planned"
    /\ cls = "Campus"
    /\ FullPlan.select = << "address" >>
    /\ FullPlan.prefetch = << "teachers__school", "teachers" >>

(***************************************************************************)
(* C14: the computation of a full plan never expands a relation into a     *)
(* serializer class that is already on the current chain of calls, and so  *)
(* never runs out of stack.                                                *)
(***************************************************************************)
C14_CyclesAreNotExpanded ==
    /\ err # "RecursionError"
    /\ \A j, k \in DOMAIN stack :
           j # k => ClassOf(cls, stack[j].node) # ClassOf(cls, stack[k].node)

(***************************************************************************)
(* C15: under a root built with disable_dynamic_read=True, every nested    *)
(* dynamic serializer that process_fields_for_dynamic_read has run on,     *)
(* below a to-one field or below a list wrapper, has its disabled flag     *)
(* set, has taken no list from the request, has handed nothing to its      *)
(* children and exposes all its declared fields.                           *)
(***************************************************************************)
C15_DisabledReachesEveryDescendant ==
    \A n \in Visited :
        nodes[<< >>].disable =>
            /\ nodes[n].disable
            /\ IsNone(nodes[n].dff) /\ IsNone(nodes[n].dof)
            /\ nodes[n].fields = FieldNames(ClassOf(cls, n))
            /\ \A m \in DOMAIN nodes :
                   (m # << >> /\ Parent(m) = n) =>
                       /\ IsNone(nodes[m].dff) /\ IsNone(nodes[m].dof)
                       /\ nodes[m].depth = 0

\* the paths of the nested dynamic serializers on relations of the model,
\* reachable from the root class through such serializers
PlannableRelations ==
    { n \in NodesUnder(cls, << >>) :
        /\ n # << >>
        /\ \A k \in 1..Len(n) :
               FieldOf(ClassOf(cls, SubSeq(n, 1, k - 1)), n[k]).rel }

(***************************************************************************)
(* C16: in a computed full plan (of a class whose relations form no        *)
(* cycle), the accessor path of every reachable nested dynamic serializer  *)
(* on a relation is a path of the select or prefetch list, or a            *)
(* segment-wise prefix of one.                                             *)
(***************************************************************************)
C16_EveryPlannableRelationIsCovered ==
    pc = "planned" =>
        \A n \in PlannableRelations :
            \E q \in SeqToSet(FullPlan.select) \cup SeqToSet(FullPlan.prefetch) :
                IsPrefix(n, Segments(q))

\* Region: `districts` is covered only as the prefix of districts__schools
C16_Witness ==
    /\ pc = "planned"
    /\ cls = "Region"
    /\ << "districts" >> \in PlannableRelations
    /\ FullPlan.select = << >>
    /\ FullPlan.prefetch = << "districts__schools" >>

====
